---- MODULE Spec2Model ----
(***************************************************************************)
(* The go2cpp audio Player (audio/internal/go2cpp/player_js.go): the       *)
(* transport operations Play/Pause/Reset/Close/Volume/SetVolume, the       *)
(* streaming goroutine (loop) with waitUntilUnpaused/write/setError/close, *)
(* the sync.Cond they share, the source io.Reader and the JS sink handle.  *)
(*                                                                         *)
(* Every method that locks p.cond.L holds it from entry to return, so the  *)
(* locked body of a method is one atomic action.  cond.Wait() releases the *)
(* lock and parks the goroutine: that is where a locked body is split.     *)
(* Volume and SetVolume take no lock: each is two steps (the Truthy test,  *)
(* then the access to p.v).  src.Read runs outside the lock.               *)
(***************************************************************************)
EXTENDS Integers, Sequences, FiniteSets

\* ------------------------------------------------------------------ bounds
MaxGen == 2        \* sink handles (and so loop goroutines) createPlayer may make
DataLen == 2       \* bytes the source holds before end-of-stream
MaxChunk == 2      \* most bytes one Read returns (the code's buffer is 4096)
SinkCap == 1       \* chunks the sink buffers before isWritable() turns false

\* --------------------------------------------------------------- constants
InitVolume == 1    \* NewPlayer: volume: 1

Paused == "Paused"     \* playerStatePaused
Playing == "Playing"   \* playerStatePlaying
Closed == "Closed"     \* playerStateClosed

Nil == "nil"           \* the nil error
EOF == "EOF"           \* io.EOF
Errors == {"E1", "E2"} \* the non-EOF errors src.Read may return
Volumes == {0, 1}      \* the arguments SetVolume is called with
Data == [i \in 1..DataLen |-> i]   \* the bytes the source holds, pairwise distinct
Bytes == {1, 2}
Sources == UNION {[1..n -> Bytes] : n \in 0..DataLen}   \* every source of at most DataLen bytes
Tasks == 1..MaxGen     \* loop goroutine g is the one started with handle g
Undefined == 0         \* js.Undefined(): p.v holds no handle

VARIABLES
    state,      \* p.state
    v,          \* p.v: Undefined, or the generation of the sink handle it holds
    volume,     \* p.volume, the cached volume
    err,        \* p.err
    released,   \* times p.onWritten.Release() ran
    panicked,   \* a goroutine panicked (syscall/js: call on undefined): the program is dead
    nextGen,    \* handles created so far
    hvol,       \* the "volume" attribute of the handle p.v holds (0 when none)
    queued,     \* chunks the handle p.v holds that the sink has not drained yet
    tasks,      \* the loop goroutines: [pc, buf, rerr]
    src,        \* p.src: the bytes the source yields before end-of-stream
    srcPos,     \* bytes of src already consumed by src.Read
    ucall,      \* the caller inside Volume/SetVolume (no lock held): [pc, arg]
    written,    \* history: every byte passed to write, as <<handle, byte>>
    closeLog,   \* history: every close call on a handle, as <<handle, discardPending>>
    closeRets,  \* history: the values Close() has returned ("panic": it panicked instead)
    owed,       \* history: the errors passed to setError since Close() last returned
    spawnedSince, \* history: loops started since the last caller Reset()/Close() (2: two or more)
    softClosed, \* history: an end-of-stream close(false) closed a handle since the last
                \* loop was started and since the last caller Reset()/Close()
    calls       \* the methods the last step called on the sink handle p.v, in order

vars == <<state, v, volume, err, released, panicked, nextGen, hvol, queued, tasks,
          src, srcPos, ucall, written, closeLog, closeRets, owed,
          spawnedSince, softClosed, calls>>

\* ------------------------------------------------------------------ helpers
NoTask == [pc |-> "none", buf |-> <<>>, rerr |-> Nil]
Idle == [pc |-> "idle", arg |-> 0]

Alive(tk) == {t \in Tasks : tk[t].pc \notin {"none", "done"}}
Waiting(tk) == {t \in Tasks : tk[t].pc = "waiting"}

\* p.cond.Signal(): wakes one goroutine parked in cond.Wait(), if there is any.
\* 0 stands for "nobody was waiting".
SignalChoices(tk) == IF Waiting(tk) = {} THEN {0} ELSE Waiting(tk)
Signal(tk, w) == IF w = 0 THEN tk ELSE [tk EXCEPT ![w].pc = "check"]

\* p.v.Call("isWritable").Bool() of the sink
isWritable == queued < SinkCap

hist == <<written, closeLog, closeRets, owed, spawnedSince, softClosed>>
player == <<state, v, volume, err, released, hvol, queued, src>>

\* NewPlayer(r): the Player over a source r
NewPlayer(r) ==
    /\ src = r
    /\ state = Paused
    /\ v = Undefined
    /\ volume = InitVolume
    /\ err = Nil
    /\ released = 0
    /\ panicked = FALSE
    /\ nextGen = 0
    /\ hvol = 0
    /\ queued = 0
    /\ tasks = [t \in Tasks |-> NoTask]
    /\ srcPos = 0
    /\ ucall = Idle
    /\ written = <<>>
    /\ closeLog = <<>>
    /\ closeRets = {}
    /\ owed = {}
    /\ spawnedSince = 0
    /\ softClosed = FALSE
    /\ calls = <<>>

Init == NewPlayer(Data)

\* ------------------------------------------------- the caller's operations

\* Play without its test of playerStateClosed
PlayIgnoresClosed == FALSE

\* Play: if p.state == playerStateClosed { return }
PlayReturnsEarly == state = Closed

\* Play creating a handle and starting a loop on every call
PlayAlwaysCreates == TRUE

\* Play: if !p.v.Truthy() { createPlayer; go p.loop() }
PlayCreates == v = Undefined

\* func (p *Player) Play()
Play ==
    /\ ~panicked
    /\ IF PlayReturnsEarly
       THEN /\ calls' = <<>>
            /\ UNCHANGED <<state, v, nextGen, hvol, queued, tasks, spawnedSince, softClosed>>
       ELSE IF PlayCreates
       THEN /\ nextGen < MaxGen
            /\ v' = nextGen + 1
            /\ nextGen' = nextGen + 1
            /\ hvol' = volume
            /\ queued' = 0
            /\ spawnedSince' = IF spawnedSince < 2 THEN spawnedSince + 1 ELSE 2
            /\ softClosed' = FALSE
            /\ state' = Playing
            /\ \E w \in SignalChoices(tasks) :
                 tasks' = [Signal(tasks, w) EXCEPT ![nextGen + 1].pc = "check"]
            /\ calls' = <<"createPlayer", "setVolume", "play">>
       ELSE /\ state' = Playing
            /\ \E w \in SignalChoices(tasks) : tasks' = Signal(tasks, w)
            /\ calls' = <<"play">>
            /\ UNCHANGED <<v, nextGen, hvol, queued, spawnedSince, softClosed>>
    /\ UNCHANGED <<src, volume, err, released, panicked, srcPos, ucall, written, closeLog,
                   closeRets, owed>>

\* func (p *Player) Pause()
Pause ==
    /\ ~panicked
    /\ IF state = Closed \/ v = Undefined
       THEN /\ calls' = <<>>
            /\ UNCHANGED <<state, tasks>>
       ELSE /\ state' = Paused
            /\ \E w \in SignalChoices(tasks) : tasks' = Signal(tasks, w)
            /\ calls' = <<"pause">>
    /\ UNCHANGED <<src, v, volume, err, released, panicked, nextGen, hvol, queued, srcPos,
                   ucall, hist>>

\* Reset also rewinding the source and forcing state to Paused
ResetRewinds ==
    /\ ~panicked
    /\ IF state = Closed \/ v = Undefined
       THEN /\ calls' = <<>>
            /\ UNCHANGED <<v, hvol, queued, tasks, closeLog, srcPos, state>>
       ELSE /\ closeLog' = Append(closeLog, <<v, TRUE>>)
            /\ v' = Undefined
            /\ hvol' = 0
            /\ queued' = 0
            /\ srcPos' = 0
            /\ state' = Paused
            /\ \E w \in SignalChoices(tasks) : tasks' = Signal(tasks, w)
            /\ calls' = <<"close">>
    /\ spawnedSince' = 0
    /\ softClosed' = FALSE
    /\ UNCHANGED <<src, volume, err, released, panicked, nextGen, ucall,
                   written, closeRets, owed>>

\* Reset dropping its reference to the handle without calling close on it
ResetForgetsClose ==
    /\ ~panicked
    /\ IF state = Closed \/ v = Undefined
       THEN /\ calls' = <<>>
            /\ UNCHANGED <<v, hvol, queued, tasks>>
       ELSE /\ v' = Undefined
            /\ hvol' = 0
            /\ queued' = 0
            /\ \E w \in SignalChoices(tasks) : tasks' = Signal(tasks, w)
            /\ calls' = <<>>
    /\ spawnedSince' = 0
    /\ softClosed' = FALSE
    /\ UNCHANGED <<src, state, volume, err, released, panicked, nextGen, srcPos, ucall,
                   written, closeLog, closeRets, owed>>

\* func (p *Player) Reset()
Reset ==
    /\ ~panicked
    /\ IF state = Closed \/ v = Undefined
       THEN /\ calls' = <<>>
            /\ UNCHANGED <<v, hvol, queued, tasks, closeLog>>
       ELSE /\ closeLog' = Append(closeLog, <<v, TRUE>>)
            /\ v' = Undefined
            /\ hvol' = 0
            /\ queued' = 0
            /\ \E w \in SignalChoices(tasks) : tasks' = Signal(tasks, w)
            /\ calls' = <<"close">>
    /\ spawnedSince' = 0
    /\ softClosed' = FALSE
    /\ UNCHANGED <<src, state, volume, err, released, panicked, nextGen, srcPos, ucall,
                   written, closeRets, owed>>

\* What Volume() returns when nothing runs between its test and its read
VolumeValue == IF v = Undefined THEN volume ELSE hvol

\* func (p *Player) Volume() float64: the test of p.v.Truthy(), no lock held
VolumeBegin ==
    /\ ~panicked
    /\ ucall.pc = "idle"
    /\ IF v = Undefined
       THEN /\ ucall' = Idle
            /\ calls' = <<>>
       ELSE /\ ucall' = [pc |-> "get", arg |-> 0]
            /\ calls' = <<>>
    /\ UNCHANGED <<player, panicked, nextGen, tasks, srcPos, hist>>

\* Volume(): return p.v.Get("volume").Float(); Get on undefined panics
VolumeEnd ==
    /\ ~panicked
    /\ ucall.pc = "get"
    /\ ucall' = Idle
    /\ IF v = Undefined
       THEN /\ panicked' = TRUE
            /\ calls' = <<>>
       ELSE /\ calls' = <<"getVolume">>
            /\ UNCHANGED panicked
    /\ UNCHANGED <<player, nextGen, tasks, srcPos, hist>>

\* SetVolume storing the volume in the cache when there is no handle
SetVolumeCaches(x) ==
    /\ ~panicked
    /\ ucall.pc = "idle"
    /\ IF v = Undefined
       THEN /\ ucall' = Idle
            /\ volume' = x
            /\ calls' = <<>>
       ELSE /\ ucall' = [pc |-> "set", arg |-> x]
            /\ calls' = <<>>
            /\ UNCHANGED volume
    /\ UNCHANGED <<state, v, err, released, hvol, queued, src, panicked, nextGen, tasks,
                   srcPos, hist>>

\* func (p *Player) SetVolume(volume float64): the test of p.v.Truthy(), no lock held
SetVolumeBegin(x) ==
    /\ ~panicked
    /\ ucall.pc = "idle"
    /\ IF v = Undefined
       THEN /\ ucall' = Idle
            /\ calls' = <<>>
       ELSE /\ ucall' = [pc |-> "set", arg |-> x]
            /\ calls' = <<>>
    /\ UNCHANGED <<player, panicked, nextGen, tasks, srcPos, hist>>

\* SetVolume: p.v.Set("volume", volume); p.volume = volume; Set on undefined panics
SetVolumeEnd ==
    /\ ~panicked
    /\ ucall.pc = "set"
    /\ ucall' = Idle
    /\ IF v = Undefined
       THEN /\ panicked' = TRUE
            /\ calls' = <<>>
            /\ UNCHANGED <<hvol, volume>>
       ELSE /\ hvol' = ucall.arg
            /\ volume' = ucall.arg
            /\ calls' = <<"setVolume">>
            /\ UNCHANGED panicked
    /\ UNCHANGED <<src, state, v, err, released, queued, nextGen, tasks, srcPos, hist>>

\* func (p *Player) close(remove bool) error, run by goroutine t (0: the caller's Close)
Done == [pc |-> "done", buf |-> <<>>, rerr |-> Nil]
Finish(tk, t) == IF t = 0 THEN tk ELSE [tk EXCEPT ![t] = Done]

close(remove, t) ==
    IF state = Closed
    THEN /\ calls' = <<>>
         /\ tasks' = Finish(tasks, t)
         /\ closeRets' = IF t = 0 THEN closeRets \cup {err} ELSE closeRets
         /\ owed' = IF t = 0 THEN {} ELSE owed
         /\ UNCHANGED <<state, v, hvol, queued, released, panicked, closeLog>>
    ELSE IF v = Undefined
    THEN \* p.v.Call("close", false) on undefined: syscall/js panics
         /\ panicked' = TRUE
         /\ calls' = <<>>
         /\ closeRets' = IF t = 0 THEN closeRets \cup {"panic"} ELSE closeRets
         /\ UNCHANGED <<state, v, hvol, queued, released, tasks, closeLog, owed>>
    ELSE /\ closeLog' = Append(closeLog, <<v, FALSE>>)
         /\ v' = Undefined
         /\ hvol' = 0
         /\ queued' = 0
         /\ state' = IF remove THEN Closed ELSE Paused
         /\ released' = IF remove THEN released + 1 ELSE released
         /\ \E w \in SignalChoices(tasks) : tasks' = Finish(Signal(tasks, w), t)
         /\ closeRets' = IF t = 0 THEN closeRets \cup {err} ELSE closeRets
         /\ owed' = IF t = 0 THEN {} ELSE owed
         /\ calls' = <<"close">>
         /\ UNCHANGED panicked

\* func (p *Player) Close() error
Close ==
    /\ ~panicked
    /\ close(TRUE, 0)
    /\ spawnedSince' = 0
    /\ softClosed' = FALSE
    /\ UNCHANGED <<src, volume, err, nextGen, srcPos, ucall, written>>

\* ------------------------------------------------- the streaming goroutine

\* func (p *Player) setError(err error), run by goroutine t
setError(e, t) ==
    /\ IF state # Closed /\ v # Undefined
       THEN /\ closeLog' = Append(closeLog, <<v, TRUE>>)
            /\ v' = Undefined
            /\ hvol' = 0
            /\ queued' = 0
            /\ calls' = <<"close">>
       ELSE /\ calls' = <<>>
            /\ UNCHANGED <<v, hvol, queued, closeLog>>
    /\ err' = e
    /\ owed' = owed \cup {e}
    /\ state' = Closed
    /\ \E w \in SignalChoices(tasks) : tasks' = Finish(Signal(tasks, w), t)

\* The loop condition without its test of playerStatePaused: a loop that finds the
\* Player paused is not held back and returns
MustWaitOnlyFull == v # Undefined /\ state = Playing /\ ~isWritable

\* The loop condition of waitUntilUnpaused: the goroutine must park
MustWait == v # Undefined /\ (state = Paused \/ (state = Playing /\ ~isWritable))

\* waitUntilUnpaused parking only on a full sink and returning p.v.Truthy(): Paused
\* does not hold the loop back
waitUntilWritable(t) ==
    /\ ~panicked
    /\ tasks[t].pc = "check"
    /\ tasks' = [tasks EXCEPT ![t].pc =
                   IF v # Undefined /\ ~isWritable THEN "waiting"
                   ELSE IF v # Undefined THEN "reading"
                   ELSE "done"]
    /\ calls' = IF v # Undefined THEN <<"isWritable">> ELSE <<>>
    /\ UNCHANGED <<player, panicked, nextGen, srcPos, ucall, hist>>

\* func (p *Player) waitUntilUnpaused() bool: from taking the lock (on entry, or on
\* waking from cond.Wait) to parking in cond.Wait or returning
waitUntilUnpaused(t) ==
    /\ ~panicked
    /\ tasks[t].pc = "check"
    /\ tasks' = [tasks EXCEPT ![t].pc =
                   IF MustWait THEN "waiting"
                   ELSE IF v # Undefined /\ state = Playing THEN "reading"
                   ELSE "done"]
    /\ calls' = IF v # Undefined /\ state = Playing THEN <<"isWritable">> ELSE <<>>
    /\ UNCHANGED <<player, panicked, nextGen, srcPos, ucall, hist>>

\* The loop testing err == io.EOF before n > 0: the bytes read with EOF are dropped
AfterReadEOFFirst(n, e) == IF e = EOF THEN "close" ELSE IF n > 0 THEN "write" ELSE "check"

\* What the loop does after Read returned (n, e) with e nil or io.EOF
AfterRead(n, e) == IF n > 0 THEN "write" ELSE IF e = EOF THEN "close" ELSE "check"

\* n, err := p.src.Read(buf) returning k bytes and e = nil or io.EOF; no lock held
Read(t, k, e) ==
    /\ ~panicked
    /\ tasks[t].pc = "reading"
    /\ k <= Len(src) - srcPos
    /\ e = EOF => srcPos + k = Len(src)
    /\ e = Nil => srcPos < Len(src)
    /\ srcPos' = srcPos + k
    /\ tasks' = [tasks EXCEPT ![t] = [pc |-> AfterRead(k, e),
                                      buf |-> SubSeq(src, srcPos + 1, srcPos + k),
                                      rerr |-> e]]
    /\ calls' = <<>>
    /\ UNCHANGED <<player, panicked, nextGen, ucall, hist>>

\* p.src.Read(buf) returning an error other than io.EOF
ReadError(t, e) ==
    /\ ~panicked
    /\ tasks[t].pc = "reading"
    /\ tasks' = [tasks EXCEPT ![t] = [pc |-> "seterr", buf |-> <<>>, rerr |-> e]]
    /\ calls' = <<>>
    /\ UNCHANGED <<player, panicked, nextGen, srcPos, ucall, hist>>

\* loop: p.setError(err); return
LoopSetError(t) ==
    /\ ~panicked
    /\ tasks[t].pc = "seterr"
    /\ setError(tasks[t].rerr, t)
    /\ UNCHANGED <<src, volume, released, panicked, nextGen, srcPos, ucall, written,
                   closeRets, spawnedSince, softClosed>>

Stamp(h, bytes) == [i \in 1..Len(bytes) |-> <<h, bytes[i]>>]

\* func (p *Player) write(dst js.Value, src []byte), then the loop's test of err == io.EOF
write(t) ==
    /\ ~panicked
    /\ tasks[t].pc = "write"
    /\ IF state = Closed \/ v = Undefined
       THEN /\ calls' = <<>>
            /\ UNCHANGED <<written, queued>>
       ELSE /\ written' = written \o Stamp(v, tasks[t].buf)
            /\ queued' = queued + 1
            /\ calls' = <<"write">>
    /\ tasks' = [tasks EXCEPT ![t] = [pc |-> AfterRead(0, tasks[t].rerr),
                                      buf |-> <<>>, rerr |-> tasks[t].rerr]]
    /\ UNCHANGED <<src, state, v, volume, err, released, hvol, panicked, nextGen, srcPos,
                   ucall, closeLog, closeRets, owed, spawnedSince, softClosed>>

\* loop: if err == io.EOF { p.close(false); return }
LoopClose(t) ==
    /\ ~panicked
    /\ tasks[t].pc = "close"
    /\ softClosed' = IF state # Closed /\ v # Undefined THEN TRUE ELSE softClosed
    /\ close(FALSE, t)
    /\ UNCHANGED <<src, volume, err, nextGen, srcPos, ucall, written, spawnedSince>>

\* The sink drained a chunk and calls onwritten (NewPlayer): cond.Signal(), no lock held
onwritten ==
    /\ ~panicked
    /\ v # Undefined
    /\ state = Playing
    /\ queued > 0
    /\ queued' = queued - 1
    /\ \E w \in SignalChoices(tasks) : tasks' = Signal(tasks, w)
    /\ calls' = <<>>
    /\ UNCHANGED <<src, state, v, volume, err, released, hvol, panicked, nextGen, srcPos,
                   ucall, hist>>

\* The transport operations, the streaming goroutines and the sink, with a source
\* that does not fail
NextStream ==
    \/ Play
    \/ Pause
    \/ Reset
    \/ Close
    \/ \E t \in Tasks : waitUntilUnpaused(t)
    \/ \E t \in Tasks : \E k \in 0..MaxChunk : \E e \in {Nil, EOF} : Read(t, k, e)
    \/ \E t \in Tasks : write(t)
    \/ \E t \in Tasks : LoopClose(t)
    \/ onwritten

\* A caller of Volume and SetVolume, which take no lock
NextCaller ==
    \/ VolumeBegin
    \/ VolumeEnd
    \/ \E x \in Volumes : SetVolumeBegin(x)
    \/ SetVolumeEnd

\* The source may fail
NextFailure ==
    \/ \E t \in Tasks : \E e \in Errors : ReadError(t, e)
    \/ \E t \in Tasks : LoopSetError(t)

\* Transport and streaming over a source that may fail
Next == NextStream \/ NextFailure

Spec == Init /\ [][Next]_vars

\* Transport, streaming and the volume caller over a source that does not fail
NextVolume == NextStream \/ NextCaller

SpecVolume == Init /\ [][NextVolume]_vars

\* Everything together
NextAll == NextStream \/ NextFailure \/ NextCaller

SpecAll == Init /\ [][NextAll]_vars

\* One Play() on a fresh Player and nothing else from the caller; the source does not fail
NextPlayOnce ==
    \/ nextGen = 0 /\ Play
    \/ \E t \in Tasks : waitUntilUnpaused(t)
    \/ \E t \in Tasks : \E k \in 0..MaxChunk : \E e \in {Nil, EOF} : Read(t, k, e)
    \/ \E t \in Tasks : write(t)
    \/ \E t \in Tasks : LoopClose(t)
    \/ onwritten

SpecPlayOnce == (\E r \in Sources : NewPlayer(r)) /\ [][NextPlayOnce]_vars
\* p.src.Read(buf) called by loop t returns, with bytes, io.EOF or an error
ReadReturns(t) ==
    \/ \E k \in 0..MaxChunk : \E e \in {Nil, EOF} : Read(t, k, e)
    \/ \E e \in Errors : ReadError(t, e)

\* The Go scheduler runs every runnable goroutine and sync.Mutex hands the lock to
\* every goroutine that asks for it, so each step of a loop that stays possible is
\* taken; src.Read returns; a sink that is playing drains what it holds and calls
\* onwritten. Nothing obliges the caller to call Play/Pause/Reset/Close.
Fairness ==
    /\ \A t \in Tasks :
         /\ WF_vars(waitUntilUnpaused(t))
         /\ WF_vars(ReadReturns(t))
         /\ WF_vars(write(t))
         /\ WF_vars(LoopClose(t))
         /\ WF_vars(LoopSetError(t))
    /\ WF_vars(onwritten)

\* Transport and streaming over a source that may fail, fairly scheduled
SpecFair == Init /\ [][Next]_vars /\ Fairness

\* ================================================================== claims

IsPrefix(a, b) == Len(a) <= Len(b) /\ SubSeq(b, 1, Len(a)) = a
BytesOf(w) == [i \in 1..Len(w) |-> w[i][2]]
Started(tk) == {t \in Tasks : tk[t].pc # "none"}

\* C1: Closed is absorbing. From a state with state = Closed, every step of any
\* caller operation or goroutine leaves state Closed and the handle absent, creates
\* no handle, starts no loop and calls nothing on the sink.
C1_ClosedAbsorbing ==
    [][state = Closed =>
         /\ state' = Closed
         /\ v = Undefined /\ v' = Undefined
         /\ nextGen' = nextGen
         /\ Started(tasks') = Started(tasks)
         /\ calls' = <<>>]_vars

\* C1 witness: the Player was closed while it held a handle, and a later operation
\* ran on the Closed Player (the closing step itself calls close on the sink).
C1_Witness == state = Closed /\ Len(closeLog) > 0 /\ calls = <<>> /\ nextGen = 1

\* C2: at any moment at most one loop goroutine of the Player is alive.
C2_AtMostOneTask == Cardinality(Alive(tasks)) <= 1

\* C2, its consequence: the source is never inside Read for two goroutines at once.
C2_NoConcurrentRead == Cardinality({t \in Tasks : tasks[t].pc = "reading"}) <= 1

\* C3: the Play() calls made with no caller Reset()/Close() between them start at
\* most one loop in total.
C3_PlayTwiceOneTask == spawnedSince <= 1

\* C3 amended: a Play() that follows another Play() with no caller Reset()/Close()
\* between them starts a loop only if an end-of-stream close(false) cleared the
\* handle since the last loop was started.
C3_SecondPlaySpawnsOnlyAfterEOF ==
    [][(nextGen' > nextGen /\ spawnedSince >= 1) => softClosed]_vars

\* C3 witness: a second Play() found the handle present and only called play on it.
C3_Witness == spawnedSince = 1 /\ calls = <<"play">> /\ nextGen = 1 /\ state = Playing

\* C3 witness of the amended case: the second Play() started a loop after a soft close.
C3_WitnessAfterEOF == spawnedSince = 2 /\ v = 2
\* C4: with one Play() on a fresh Player as the only caller operation and a source
\* of N bytes then end-of-stream, what is written is always a prefix of the source,
\* all of it to the one handle, and once the Player is back to Paused with no
\* handle all N bytes have been written, in order, with no gap and no duplicate.
C4_ExactBytes ==
    /\ IsPrefix(BytesOf(written), src)
    /\ \A i \in 1..Len(written) : written[i][1] = 1
    /\ (nextGen = 1 /\ state = Paused /\ v = Undefined)
         => (BytesOf(written) = src /\ tasks[1].pc = "done" /\ ~panicked)

\* C4 witness: a source of DataLen bytes was streamed to the end and soft-closed.
C4_Witness ==
    /\ nextGen = 1 /\ state = Paused /\ v = Undefined
    /\ Len(src) = DataLen /\ BytesOf(written) = src /\ closeLog = <<<<1, FALSE>>>>

\* C5: a write is issued to the sink only while state is Playing.
C5_WriteOnlyWhilePlaying == [][written' # written => state = Playing]_vars

\* C5 amended: a loop leaves waitUntilUnpaused for a read only while state is
\* Playing with a writable handle, and a write issued while state is Paused is the
\* write of the one chunk a loop had read, or was reading, when Pause() ran: that
\* loop then re-enters waitUntilUnpaused (or closes at end-of-stream), so it writes
\* nothing more until a later Play().
C5_WriteGate ==
    [][\A t \in Tasks :
         /\ (tasks[t].pc # "reading" /\ tasks'[t].pc = "reading")
              => (tasks[t].pc = "check" /\ state = Playing /\ v # Undefined /\ isWritable)
         /\ (tasks[t].pc # "write" /\ tasks'[t].pc = "write")
              => (tasks[t].pc = "reading" /\ tasks'[t].buf # <<>>)
         /\ (state = Paused /\ written' # written /\ tasks'[t] # tasks[t])
              => (tasks[t].pc = "write" /\ tasks'[t].pc \in {"check", "close"}
                  /\ written' = written \o Stamp(v, tasks[t].buf))]_vars

\* C5 witness: a write reached the sink while state was Paused.
C5_Witness == state = Paused /\ calls = <<"write">> /\ v # Undefined
\* C6: after a read error the loop reads and writes nothing more and terminates,
\* the handle (if present) is closed with discardPending = true and cleared, state
\* is Closed, and the next Close() returns exactly that error: when Close() returns,
\* every error passed to setError since the previous Close() is the one it returns.
C6_ReadErrorCloses ==
    [][/\ \A t \in Tasks :
            (tasks[t].pc = "seterr" /\ tasks'[t].pc # "seterr")
              => /\ tasks'[t].pc = "done"
                 /\ state' = Closed /\ v' = Undefined
                 /\ err' = tasks[t].rerr
                 /\ written' = written /\ srcPos' = srcPos
                 /\ (state # Closed /\ v # Undefined)
                      => closeLog' = Append(closeLog, <<v, TRUE>>)
       /\ (owed # {} /\ owed' = {}) => owed = {err}]_vars

\* C7: the sticky error is set at most once: once recorded it is never replaced.
C7_FirstErrorWins == [][err # Nil => err' = err]_vars

\* C8: Close() is idempotent: every handle is closed at most once, all the Close()
\* calls that returned have returned the same value, and state is Closed once a
\* Close() has returned.
C8_CloseIdempotent ==
    /\ \A i, j \in 1..Len(closeLog) : closeLog[i][1] = closeLog[j][1] => i = j
    /\ Cardinality(closeRets \ {"panic"}) <= 1
    /\ closeRets \ {"panic"} # {} => state = Closed

\* C9: Reset() on a non-Closed Player with a handle closes that handle with
\* discardPending = true and clears it, and leaves state, the cached volume, the
\* sticky error and the source position unchanged; Play() with no handle then
\* creates a fresh handle and starts exactly one loop, parked nowhere, without
\* moving the source; and every Read hands out the bytes at the current position.
C9_ResetThenPlay ==
    [][/\ (Reset /\ state # Closed /\ v # Undefined)
            => /\ closeLog' = Append(closeLog, <<v, TRUE>>)
               /\ v' = Undefined
               /\ state' = state /\ volume' = volume /\ err' = err
               /\ srcPos' = srcPos /\ nextGen' = nextGen
               /\ Started(tasks') = Started(tasks)
       /\ (Play /\ state # Closed /\ v = Undefined)
            => /\ v' = nextGen + 1 /\ v' > nextGen
               /\ \A i \in 1..Len(closeLog) : closeLog[i][1] # v'
               /\ Started(tasks') = Started(tasks) \cup {v'} /\ v' \notin Started(tasks)
               /\ tasks'[v'].pc = "check"
               /\ state' = Playing /\ srcPos' = srcPos
       /\ \A t \in Tasks :
            (tasks[t].pc = "reading" /\ tasks'[t].pc \in {"write", "check", "close"})
              => tasks'[t].buf = SubSeq(src, srcPos + 1, srcPos')]_vars

\* C9 witness: Reset() ran while Playing after part of the source was consumed, the
\* state stayed Playing, and the loop of the Play() that followed has read on from
\* where the source stood.
C9_Witness ==
    /\ closeLog = <<<<1, TRUE>>>> /\ v = 2 /\ state = Playing
    /\ tasks[2].pc = "write" /\ tasks[2].buf = <<2>> /\ srcPos = 2
    /\ tasks[1].pc = "done"

\* C10: SetVolume with no handle changes nothing; the cache changes only in a
\* SetVolume step taken with a handle present; the handle Play() creates starts
\* with the cached volume, and Volume() is the same before and after that Play().
C10_SetVolumeNoHandle ==
    [][/\ ((\E x \in Volumes : SetVolumeBegin(x)) /\ v = Undefined)
            => (UNCHANGED <<volume, hvol, v, state>> /\ ucall' = Idle /\ calls' = <<>>)
       /\ volume' # volume
            => (v # Undefined /\ v' = v /\ calls' = <<"setVolume">> /\ hvol' = volume')
       /\ (v = Undefined /\ v' # Undefined)
            => (hvol' = volume /\ volume' = volume /\ VolumeValue' = VolumeValue)]_vars

\* C10 witness: the cache was changed through the first handle, and a handle created
\* later was initialised from the cache.
C10_Witness ==
    /\ nextGen = 2 /\ v = 2 /\ volume # InitVolume /\ hvol = volume
    /\ calls = <<"createPlayer", "setVolume", "play">>

\* C11: every loop eventually terminates once the handle is cleared or state is
\* Closed, because the Signal of the clearing step reaches every parked loop. Its
\* finite form: the Player is never Closed with a loop parked in cond.Wait() while
\* every loop still alive is parked too (from there no step signals the condition
\* again, so the parked loops never exit).
C11_NoTaskParkedForever ==
    ~(state = Closed /\ Waiting(tasks) # {} /\ Alive(tasks) = Waiting(tasks))

\* C12: the wake-up from backpressure is not lost. Whenever a loop is parked while
\* state is Playing and the handle h is present and full, then, under fair
\* scheduling, that loop eventually passes waitUntilUnpaused and goes on to read,
\* unless state stops being Playing or h stops being the Player's handle first
\* (a Pause, Reset or Close intervened).
C12_WakeupNotLost ==
    \A t \in Tasks : \A h \in 1..MaxGen :
        (tasks[t].pc = "waiting" /\ state = Playing /\ v = h /\ ~isWritable)
            ~> (tasks[t].pc = "reading" \/ state # Playing \/ v # h)

\* C13: Volume and SetVolume hold the lock from their test of the handle to their
\* access to it, so no Reset or Close runs in between: whenever the caller stands
\* between the test and the access, the handle it found present is still present.
C13_VolumeUnderLock == ucall.pc \in {"get", "set"} => v # Undefined

\* C14: discardPending = false is passed to the sink only by the end-of-stream soft
\* close: every other step that closes a handle (Reset, the caller's Close(),
\* setError) passes discardPending = true.
C14_CloseDiscardsPending ==
    [][(closeLog' # closeLog /\ ~(\E t \in Tasks : LoopClose(t)))
          => closeLog' = Append(closeLog, <<v, TRUE>>)]_vars

\* C15: whenever a Close() call has returned, the registration of the onwritten
\* callback has been released exactly once, on every path by which the Player
\* became Closed.
C15_ReleasedOnce == (closeRets \ {"panic"}) # {} => released = 1

\* C16: a loop writes to, and at end-of-stream soft-closes, only the handle created
\* by the Play() that started it (loop t is the one started with handle t).
C16_OwnGenerationOnly ==
    [][\A t \in Tasks :
         ((write(t) \/ LoopClose(t)) /\ calls' # <<>>) => v = t]_vars

\* C17: no method of the sink handle is ever called while p.v holds no handle (in
\* the model such a call is the panic of syscall/js on an undefined value).
C17_NoCallOnAbsentHandle == ~panicked

\* C18: a write is issued only to a handle that reports writable at that moment.
C18_WriteOnlyWhenWritable == [][calls' = <<"write">> => isWritable]_vars

\* C19: whenever no operation holds the lock, a handle that is present has at least
\* one loop that has not terminated, and a Closed Player holds no handle.
C19_HandleHasTask ==
    /\ v # Undefined => Alive(tasks) # {}
    /\ state = Closed => v = Undefined

\* C19 witness: the first handle is gone and its loop has terminated; the second
\* handle is present, paused, and the loop started with it is the only one alive.
C19_Witness ==
    /\ v = 2 /\ state = Paused /\ tasks[1].pc = "done" /\ Alive(tasks) = {2}

ClosedHandles == {closeLog[i][1] : i \in 1..Len(closeLog)}

\* C20: every handle is closed at most once; every method called on the handle
\* under the lock is called on the handle p.v holds, which has not been closed;
\* and whenever state is Closed every handle ever created has been closed. (The
\* handles ever created are 1..nextGen; all but the one p.v holds are closed.)
C20_HandleLifecycle ==
    /\ \A i, j \in 1..Len(closeLog) : closeLog[i][1] = closeLog[j][1] => i = j
    /\ ClosedHandles \subseteq 1..nextGen
    /\ v # Undefined => v \notin ClosedHandles
    /\ calls # <<>> /\ calls[Len(calls)] # "close" => v # Undefined
    /\ \A h \in 1..nextGen : h = v \/ h \in ClosedHandles
    /\ state = Closed => ClosedHandles = 1..nextGen

\* C20 witness: two handles were created; the first was closed by Reset, the second
\* by the end-of-stream soft close after data was written to it; then the Player
\* was closed by a read error.
C20_Witness ==
    /\ state = Closed /\ nextGen = 2 /\ closeLog = <<<<1, TRUE>>, <<2, FALSE>>>>
    /\ \E i \in 1..Len(written) : written[i][1] = 2
====
